---- MODULE Spec2Model ----
(***************************************************************************)
(* TWstock: a SQLite store of daily prices (database.py) and the sync      *)
(* engine that fills it from the market-data provider (download_data.py).  *)
(*                                                                         *)
(* The three tables are modelled by their committed contents.  The         *)
(* surrogate column price_daily.id is never read by the program and is     *)
(* left out; a row of price_daily is the record of its nine other columns. *)
(* TEXT values that the program compares or parses (dates) are sequences   *)
(* of character codes, prices are integers in hundredths, raw provider     *)
(* prices are integers in thousandths, raw volumes are in tenths.          *)
(***************************************************************************)
EXTENDS Integers, Sequences, FiniteSets, TLC

VARIABLES
    price_daily,        \* committed rows of table price_daily
    categories,         \* committed rows of table categories
    sqlite_sequence,    \* AUTOINCREMENT counter of table categories
    ticker_categories,  \* committed rows of table ticker_categories, each with the
                        \* number of rows that hold its two values (`copies`)
    foreign_keys,       \* PRAGMA foreign_keys of every connection (build default)
    last,               \* the last finished call and what it returned
    upserted,           \* history: per ticker, the dates of the rows that committed
                        \* upserts wrote since the ticker's rows were last deleted
    ever,               \* history: per ticker, the dates of the rows that committed
                        \* upserts ever wrote (kept by HistorySyncSpec only)
    handles,            \* connections that were opened and are not closed (counted
                        \* by HandleSpec only)
    pc,                 \* position of update_all_ticker: "idle", "loop", "done"
    tickers,            \* update_all_ticker: the list read at batch start
    i,                  \* update_all_ticker: number of tickers already processed
    success_count,      \* update_all_ticker: local counter
    fail_count,         \* update_all_ticker: local counter
    already_updated,    \* update_all_ticker: local counter
    start_date          \* update_all_ticker: local, start of the last ranged fetch

store == <<price_daily, categories, sqlite_sequence, ticker_categories>>
batch == <<pc, tickers, i, success_count, fail_count, already_updated, start_date>>
vars  == <<price_daily, categories, sqlite_sequence, ticker_categories,
           foreign_keys, last, upserted, ever, handles, pc, tickers, i,
           success_count,
           fail_count, already_updated, start_date>>

----------------------------------------------------------------------------
(* Bounds *)

NumDates == 2           \* trading days per ticker that the provider knows
MaxCategoryId == 2      \* cap on the AUTOINCREMENT counter of categories
MaxHandles == 2         \* cap on the connections left open at one time

----------------------------------------------------------------------------
(* Input universes *)

\* ticker identifiers, in the order ORDER BY ticker gives them
TickerUniverse == <<"1101.TW", "2330.TW">>
Tickers == {TickerUniverse[k] : k \in 1..Len(TickerUniverse)}

\* the trading days of each ticker, ascending
TradingDays(t) ==
    IF t = "1101.TW"
    THEN <<[y |-> 2023, m |-> 2,  d |-> 28],
           [y |-> 2023, m |-> 12, d |-> 31],
           [y |-> 2024, m |-> 1,  d |-> 1],
           [y |-> 2024, m |-> 1,  d |-> 2]>>
    ELSE <<[y |-> 2024, m |-> 2,  d |-> 28],
           [y |-> 2024, m |-> 2,  d |-> 29],
           [y |-> 2024, m |-> 3,  d |-> 1],
           [y |-> 2024, m |-> 3,  d |-> 4]>>

Days(t) == SubSeq(TradingDays(t), 1, NumDates)

\* the value rows (see RawRow) a client of insert_price may write for one day,
\* and those the provider returns for it; NaNProfile marks a missing Volume
Profiles == {1, 2}
ProviderProfiles == {1}
NaNProfile == 3

CategoryNames == {"semis", "shipping"}
CategoryIds == 1..MaxCategoryId

NaN == -1

None == <<>>

----------------------------------------------------------------------------
(* TEXT values and dates *)

Digit(n) == 48 + n
Dash == 45

\* df['date'].dt.strftime('%Y-%m-%d')
strftime(dt) ==
    << Digit(dt.y \div 1000), Digit((dt.y \div 100) % 10),
       Digit((dt.y \div 10) % 10), Digit(dt.y % 10), Dash,
       Digit(dt.m \div 10), Digit(dt.m % 10), Dash,
       Digit(dt.d \div 10), Digit(dt.d % 10) >>

\* datetime.strptime(text, '%Y-%m-%d')
strptime(s) ==
    [y |-> (s[1] - 48) * 1000 + (s[2] - 48) * 100 + (s[3] - 48) * 10 + (s[4] - 48),
     m |-> (s[6] - 48) * 10 + (s[7] - 48),
     d |-> (s[9] - 48) * 10 + (s[10] - 48)]

\* SQLite's BINARY collation on TEXT: bytewise, a proper prefix sorts first
TextLess(a, b) ==
    \/ \E k \in 1..Len(a) :
          /\ k <= Len(b)
          /\ a[k] < b[k]
          /\ \A n \in 1..(k - 1) : a[n] = b[n]
    \/ /\ Len(a) < Len(b)
       /\ \A n \in 1..Len(a) : a[n] = b[n]

TextMax(S) == CHOOSE x \in S : \A z \in S : ~TextLess(x, z)

IsLeap(year) == (year % 4 = 0) /\ ((year % 100 # 0) \/ (year % 400 = 0))

DaysInMonth == <<31, 28, 31, 30, 31, 30, 31, 31, 30, 31, 30, 31>>
DaysBeforeMonth == <<0, 31, 59, 90, 120, 151, 181, 212, 243, 273, 304, 334>>

days_before_year(year) ==
    (year - 1) * 365 + (year - 1) \div 4 - (year - 1) \div 100 + (year - 1) \div 400

days_before_month(year, month) ==
    DaysBeforeMonth[month] + (IF month > 2 /\ IsLeap(year) THEN 1 ELSE 0)

\* date.toordinal()
ymd2ord(dt) == days_before_year(dt.y) + days_before_month(dt.y, dt.m) + dt.d

\* date.fromordinal()
ord2ymd(ord) ==
    LET n0   == ord - 1
        n400 == n0 \div 146097
        r400 == n0 % 146097
        n100 == r400 \div 36524
        r100 == r400 % 36524
        n4   == r100 \div 1461
        r4   == r100 % 1461
        n1   == r4 \div 365
        r1   == r4 % 365
        year == n400 * 400 + 1 + n100 * 100 + n4 * 4 + n1
        leap == (n1 = 3) /\ ((n4 # 24) \/ (n100 = 3))
        mth  == (r1 + 50) \div 32
        prec == DaysBeforeMonth[mth] + (IF mth > 2 /\ leap THEN 1 ELSE 0)
        mth2 == IF prec > r1 THEN mth - 1 ELSE mth
        prec2 == IF prec > r1
                 THEN prec - (DaysInMonth[mth2] + (IF mth2 = 2 /\ leap THEN 1 ELSE 0))
                 ELSE prec
    IN  IF n1 = 4 \/ n100 = 4
        THEN [y |-> year - 1, m |-> 12, d |-> 31]
        ELSE [y |-> year, m |-> mth2, d |-> r1 - prec2 + 1]

\* datetime + timedelta(days = n)
AddDays(dt, n) == ord2ymd(ymd2ord(dt) + n)

\* the start without the timedelta: the watermark day itself
NextStartDateSameDay(last_date) == strftime(strptime(last_date))

\* (datetime.strptime(last_date, '%Y-%m-%d') + timedelta(days=1)).strftime('%Y-%m-%d')
NextStartDate(last_date) == strftime(AddDays(strptime(last_date), 1))

----------------------------------------------------------------------------
(* The provider's rows and their normalisation (download_data.py) *)

\* np.round(x, 2) on a value given in thousandths: nearest hundredth, ties to even
Round2(x) ==
    LET q == x \div 10
        r == x % 10
    IN  IF r < 5 THEN q
        ELSE IF r > 5 THEN q + 1
        ELSE IF q % 2 = 0 THEN q ELSE q + 1

\* astype(int) on a volume given in tenths: truncation (NaN raises, see normalize)
AsInt(v) == v \div 10

\* one row of ticker_obj.history(...): prices in thousandths, volume in tenths
RawRow(dt, p) ==
    [Date         |-> dt,
     Open         |-> 1000 * p + 104,
     High         |-> 1000 * p + 115,
     Low          |-> 1000 * p + 95,
     Close        |-> 1000 * p + 105,
     Volume       |-> 10000 * p + 5,
     Dividends    |-> 1000 * p,
     StockSplits  |-> 1000 * (p - 1)]

\* a row whose Volume is missing
RawRowNaN(dt) == [RawRow(dt, 1) EXCEPT !.Volume = NaN]

\* reset_index, stamp ticker, rename, select, strftime, round(2), astype(int)
CanonRow(raw, ticker) ==
    [date         |-> strftime(raw.Date),
     open         |-> Round2(raw.Open),
     high         |-> Round2(raw.High),
     low          |-> Round2(raw.Low),
     close        |-> Round2(raw.Close),
     volume       |-> AsInt(raw.Volume),
     dividends    |-> Round2(raw.Dividends),
     stock_splits |-> Round2(raw.StockSplits),
     ticker       |-> ticker]

\* the normalisation block; df['volume'].astype(int) raises on a NaN volume
normalize(df, ticker) ==
    IF \E k \in 1..Len(df) : df[k].Volume = NaN
    THEN [raised |-> TRUE,  data |-> <<>>]
    ELSE [raised |-> FALSE, data |-> [k \in 1..Len(df) |-> CanonRow(df[k], ticker)]]

----------------------------------------------------------------------------
(* Persistence store (database.py) *)

Key(r) == <<r.ticker, r.date>>

\* the statement written as INSERT OR IGNORE: a stored row is kept as it is
UpsertIgnore(table, r) ==
    IF \E s \in table : Key(s) = Key(r) THEN table ELSE table \cup {r}

\* INSERT ... ON CONFLICT(ticker, date) DO UPDATE SET <seven columns> = excluded.*
Upsert(table, r) ==
    IF \E s \in table : Key(s) = Key(r)
    THEN {IF Key(s) = Key(r)
          THEN [s EXCEPT !.open = r.open, !.high = r.high, !.low = r.low,
                         !.close = r.close, !.volume = r.volume,
                         !.dividends = r.dividends,
                         !.stock_splits = r.stock_splits]
          ELSE s : s \in table}
    ELSE table \cup {r}

\* cursor.executemany(sql, data_to_insert), the first n rows
RECURSIVE executemany(_, _, _)
executemany(table, data, n) ==
    IF n = 0 THEN table
    ELSE Upsert(executemany(table, data, n - 1), data[n])

\* insert_price with the commit in a `finally`: the rows before the failing one
\* are published
insert_price_partial(table, data, fault) ==
    IF fault = 0
    THEN [raised |-> FALSE, table |-> executemany(table, data, Len(data))]
    ELSE [raised |-> TRUE,
          table  |-> executemany(table, data, IF fault > Len(data) THEN Len(data) ELSE fault - 1)]

\* insert_price that empties price_daily before it writes the frame
insert_price_replace(table, data, fault) ==
    IF fault = 0
    THEN [raised |-> FALSE, table |-> executemany({}, data, Len(data))]
    ELSE [raised |-> TRUE,  table |-> table]

\* insert_price(data): fault 0 is a clean run; fault k in 1..Len(data) is an
\* error raised by executemany at row k; fault Len(data)+1 is an error raised by
\* commit.  An error leaves the function before commit: the pending
\* transaction is rolled back when the connection goes away.
insert_price(table, data, fault) ==
    IF fault = 0
    THEN [raised |-> FALSE, table |-> executemany(table, data, Len(data))]
    ELSE [raised |-> TRUE,  table |-> table]

\* the list of every ticker, with stored rows or without
get_all_tickers_unfiltered(table) == TickerUniverse

\* SELECT DISTINCT ticker FROM price_daily ORDER BY ticker
get_all_tickers(table) ==
    LET present == {r.ticker : r \in table}
        ordered == SelectSeq(TickerUniverse, LAMBDA t : t \in present)
    IN  ordered

TextMin(S) == CHOOSE x \in S : \A z \in S : ~TextLess(z, x)

\* the query written with MIN(date)
get_first_price_date(table, ticker) ==
    LET ds == {r.date : r \in {s \in table : s.ticker = ticker}}
    IN  IF ds = {} THEN None ELSE TextMin(ds)

\* SELECT MAX(date) FROM price_daily WHERE ticker = ?; None when there is no row
get_last_price_date(table, ticker) ==
    LET ds == {r.date : r \in {s \in table : s.ticker = ticker}}
        result == TextMax(ds)
    IN  IF ds = {} THEN None
        ELSE IF result = <<>> THEN None ELSE result

Bool(b) == IF b THEN "True" ELSE "False"

Idle == pc = "idle"

\* what a finished call leaves with its caller: the value returned ("raise" for
\* an exception), the message printed (or, for a call that prints none, the
\* path it took), and the numbers shown in that message
Result(op, ret, out, rows) == [op |-> op, ret |-> ret, out |-> out, rows |-> rows]

\* the stored rows that a call of insert_price replaced by different values
Replaced(table, after) == Cardinality(table \ after)

\* the dates of data, added to those recorded for ticker t
Record(log, data) ==
    [t \in Tickers |-> log[t] \cup {data[k].date : k \in {n \in 1..Len(data) : data[n].ticker = t}}]

\* a direct call of insert_price by a client of the store
upsertPrices(data, fault) ==
    LET res == insert_price(price_daily, data, fault)
    IN  /\ Idle
        /\ price_daily' = res.table
        /\ upserted' = IF res.raised THEN upserted ELSE Record(upserted, data)
        /\ last' = IF res.raised
                   THEN Result("insert_price", "raise", "", <<>>)
                   ELSE Result("insert_price", "None", "", <<Replaced(price_daily, res.table)>>)
        /\ UNCHANGED <<categories, sqlite_sequence, ticker_categories,
                       foreign_keys, batch>>

\* the number of rows of ticker_categories that the records of links stand for
RECURSIVE RowCount(_)
RowCount(links) ==
    IF links = {} THEN 0
    ELSE LET l == CHOOSE x \in links : TRUE
         IN  l.copies + RowCount(links \ {l})

\* delete_ticker on a connection in autocommit mode: each DELETE is published
\* as it runs, so an error at the second one leaves the first one done
delete_ticker_autocommit(ticker, fault) ==
    LET tx_price         == {r \in price_daily : r.ticker # ticker}
        price_deleted    == Cardinality(price_daily) - Cardinality(tx_price)
        tx_links         == {l \in ticker_categories : l.ticker # ticker}
        category_deleted == RowCount(ticker_categories) - RowCount(tx_links)
    IN  /\ Idle
        /\ price_daily' = IF fault = "delete_price" THEN price_daily ELSE tx_price
        /\ ticker_categories' =
              IF fault \in {"delete_price", "delete_links"} THEN ticker_categories ELSE tx_links
        /\ upserted' = IF fault = "delete_price" THEN upserted
                       ELSE [upserted EXCEPT ![ticker] = {}]
        /\ last' = IF fault = "none"
                   THEN Result("delete_ticker", Bool(price_deleted > 0), "deleted",
                               <<price_deleted, category_deleted>>)
                   ELSE Result("delete_ticker", "False", "failed", <<>>)
        /\ UNCHANGED <<categories, sqlite_sequence, foreign_keys, batch>>

\* delete_ticker(ticker); fault names the statement that raises sqlite3.Error.
\* Both DELETEs run in one transaction: commit publishes both, and an error
\* before it leaves through `finally: conn.close()`, which rolls both back.
delete_ticker(ticker, fault) ==
    LET tx_price         == {r \in price_daily : r.ticker # ticker}
        price_deleted    == Cardinality(price_daily) - Cardinality(tx_price)
        tx_links         == {l \in ticker_categories : l.ticker # ticker}
        category_deleted == RowCount(ticker_categories) - RowCount(tx_links)
    IN  /\ Idle
        /\ IF fault = "none"
           THEN /\ price_daily' = tx_price
                /\ ticker_categories' = tx_links
                /\ upserted' = [upserted EXCEPT ![ticker] = {}]
                /\ last' = Result("delete_ticker", Bool(price_deleted > 0), "deleted",
                                  <<price_deleted, category_deleted>>)
           ELSE /\ UNCHANGED <<price_daily, ticker_categories, upserted>>
                /\ last' = Result("delete_ticker", "False", "failed", <<>>)
        /\ UNCHANGED <<categories, sqlite_sequence, foreign_keys, batch>>

\* add_category on a table whose name column is not UNIQUE
add_category_not_unique(name, fault) ==
    /\ Idle
    /\ ~fault => sqlite_sequence < MaxCategoryId
    /\ IF fault
       THEN /\ UNCHANGED <<categories, sqlite_sequence>>
            /\ last' = Result("add_category", "raise", "", <<>>)
       ELSE /\ categories' = categories \cup {[id |-> sqlite_sequence + 1, name |-> name]}
            /\ sqlite_sequence' = sqlite_sequence + 1
            /\ last' = Result("add_category", "True", "", <<>>)
    /\ UNCHANGED <<price_daily, ticker_categories, foreign_keys, upserted, batch>>

\* add_category(name); only sqlite3.IntegrityError is caught
add_category(name, fault) ==
    /\ Idle
    /\ (~fault /\ ~(\E c \in categories : c.name = name)) => sqlite_sequence < MaxCategoryId
    /\ IF fault
       THEN /\ UNCHANGED <<categories, sqlite_sequence>>
            /\ last' = Result("add_category", "raise", "", <<>>)
       ELSE IF \E c \in categories : c.name = name
       THEN /\ UNCHANGED <<categories, sqlite_sequence>>
            /\ last' = Result("add_category", "False", "", <<>>)
       ELSE /\ categories' = categories \cup {[id |-> sqlite_sequence + 1, name |-> name]}
            /\ sqlite_sequence' = sqlite_sequence + 1
            /\ last' = Result("add_category", "True", "", <<>>)
    /\ UNCHANGED <<price_daily, ticker_categories, foreign_keys, upserted, batch>>

\* DELETE FROM categories WHERE id = ?.  ON DELETE CASCADE acts only on a
\* connection that enforces foreign keys; no connection of database.py sets
\* PRAGMA foreign_keys, so the build's default decides.
delete_category(category_id, fault) ==
    /\ Idle
    /\ IF fault
       THEN /\ UNCHANGED <<categories, ticker_categories>>
            /\ last' = Result("delete_category", "False", "", <<>>)
       ELSE /\ categories' = {c \in categories : c.id # category_id}
            /\ ticker_categories' =
                 IF foreign_keys /\ (\E c \in categories : c.id = category_id)
                 THEN {l \in ticker_categories : l.category_id # category_id}
                 ELSE ticker_categories
            /\ last' = Result("delete_category", "True", "", <<>>)
    /\ UNCHANGED <<price_daily, sqlite_sequence, foreign_keys, upserted, batch>>

\* the rows of ticker_categories with these two values
Linked(links, ticker, category_id) ==
    {l \in links : l.ticker = ticker /\ l.category_id = category_id}

\* assign_ticker_to_category on a table without PRIMARY KEY (ticker,
\* category_id): nothing conflicts, so a second row is inserted
assign_ticker_to_category_no_key(ticker, category_id, fault) ==
    LET fk_fails == foreign_keys /\ ~(\E c \in categories : c.id = category_id)
        stored   == Linked(ticker_categories, ticker, category_id)
    IN  /\ Idle
        /\ IF fault \/ fk_fails
           THEN /\ UNCHANGED ticker_categories
                /\ last' = Result("assign_ticker_to_category", "False", "", <<>>)
           ELSE /\ ticker_categories' =
                      IF stored = {}
                      THEN ticker_categories \cup
                              {[ticker |-> ticker, category_id |-> category_id, copies |-> 1]}
                      ELSE (ticker_categories \ stored) \cup
                              {[ticker |-> ticker, category_id |-> category_id, copies |-> 2]}
                /\ last' = Result("assign_ticker_to_category", "True", "", <<>>)
        /\ UNCHANGED <<price_daily, categories, sqlite_sequence, foreign_keys,
                       upserted, batch>>

\* INSERT OR IGNORE INTO ticker_categories: a row whose (ticker, category_id)
\* is stored conflicts with the primary key and is ignored; a foreign-key
\* failure is an sqlite3.IntegrityError, which OR IGNORE does not cover
assign_ticker_to_category(ticker, category_id, fault) ==
    LET fk_fails == foreign_keys /\ ~(\E c \in categories : c.id = category_id)
        stored   == Linked(ticker_categories, ticker, category_id)
    IN  /\ Idle
        /\ IF fault \/ fk_fails
           THEN /\ UNCHANGED ticker_categories
                /\ last' = Result("assign_ticker_to_category", "False", "", <<>>)
           ELSE /\ ticker_categories' =
                      IF stored # {}
                      THEN ticker_categories
                      ELSE ticker_categories \cup
                              {[ticker |-> ticker, category_id |-> category_id, copies |-> 1]}
                /\ last' = Result("assign_ticker_to_category", "True",
                                  IF stored # {} THEN "ignored" ELSE "inserted", <<>>)
        /\ UNCHANGED <<price_daily, categories, sqlite_sequence, foreign_keys,
                       upserted, batch>>

\* DELETE FROM ticker_categories WHERE ticker = ? AND category_id = ?
remove_ticker_from_category(ticker, category_id, fault) ==
    /\ Idle
    /\ IF fault
       THEN /\ UNCHANGED ticker_categories
            /\ last' = Result("remove_ticker_from_category", "False", "", <<>>)
       ELSE /\ ticker_categories' = ticker_categories \
                   Linked(ticker_categories, ticker, category_id)
            /\ last' = Result("remove_ticker_from_category", "True", "", <<>>)
    /\ UNCHANGED <<price_daily, categories, sqlite_sequence, foreign_keys,
                   upserted, batch>>

\* a call of get_all_tickers(): no try, so an error of execute or fetchall
\* leaves the function before conn.close()
call_get_all_tickers(fault) ==
    /\ Idle
    /\ last' = IF fault
               THEN Result("get_all_tickers", "raise", "", <<>>)
               ELSE Result("get_all_tickers", "list", "", get_all_tickers(price_daily))
    /\ UNCHANGED <<store, foreign_keys, upserted, batch>>

\* a call of get_last_price_date(ticker): no try either
call_get_last_price_date(ticker, fault) ==
    /\ Idle
    /\ last' = IF fault
               THEN Result("get_last_price_date", "raise", "", <<>>)
               ELSE Result("get_last_price_date", "value", "",
                           <<get_last_price_date(price_daily, ticker)>>)
    /\ UNCHANGED <<store, foreign_keys, upserted, batch>>

\* select_price(ticker): the rows of the ticker ordered by date (here: their
\* number); an error of read_sql_query leaves through `finally: conn.close()`
select_price(ticker, fault) ==
    /\ Idle
    /\ last' = IF fault
               THEN Result("select_price", "raise", "", <<>>)
               ELSE Result("select_price", "frame", "",
                           <<Cardinality({r \in price_daily : r.ticker = ticker})>>)
    /\ UNCHANGED <<store, foreign_keys, upserted, batch>>

\* SUM(close) and SUM(volume) over a set of rows
RECURSIVE SumClose(_)
SumClose(rows) ==
    IF rows = {} THEN 0
    ELSE LET r == CHOOSE x \in rows : TRUE
         IN  r.close + SumClose(rows \ {r})

RECURSIVE SumVolume(_)
SumVolume(rows) ==
    IF rows = {} THEN 0
    ELSE LET r == CHOOSE x \in rows : TRUE
         IN  r.volume + SumVolume(rows \ {r})

MinOf(S) == CHOOSE x \in S : \A z \in S : x <= z
MaxOf(S) == CHOOSE x \in S : \A z \in S : x >= z

\* the one row that the aggregate query of get_ticker_statistics returns:
\* COUNT(*) is a number, the other aggregates are NULL (None) over no row.
\* AVG(close) is kept as the pair <<SUM(close), COUNT(*)>>.
fetchone_statistics(table, ticker) ==
    LET rows == {r \in table : r.ticker = ticker}
    IN  IF rows = {}
        THEN <<0, None, None, None, None, None, None>>
        ELSE <<Cardinality(rows),
               TextMin({r.date : r \in rows}),
               TextMax({r.date : r \in rows}),
               MinOf({r.low : r \in rows}),
               MaxOf({r.high : r \in rows}),
               <<SumClose(rows), Cardinality(rows)>>,
               SumVolume(rows)>>

\* get_ticker_statistics(ticker): `if result:` tests the fetched tuple, which
\* is true of every tuple that has an element
get_ticker_statistics(table, ticker) ==
    LET result == fetchone_statistics(table, ticker)
    IN  IF Len(result) > 0
        THEN [total_days    |-> result[1],
              first_date    |-> result[2],
              last_date     |-> result[3],
              lowest_price  |-> result[4],
              highest_price |-> result[5],
              avg_price     |-> result[6],
              total_volume  |-> result[7]]
        ELSE None

\* a call of get_ticker_statistics(ticker)
call_get_ticker_statistics(ticker) ==
    LET stats == get_ticker_statistics(price_daily, ticker)
    IN  /\ Idle
        /\ last' = IF stats = None
                   THEN Result("get_ticker_statistics", "None", "", <<>>)
                   ELSE Result("get_ticker_statistics", "dict", "", <<stats>>)
        /\ UNCHANGED <<store, foreign_keys, upserted, batch>>

\* get_tickers_by_category(category_id): the argument is None or <<id>>.
\* Both queries select FROM price_daily pd: with None, pd LEFT JOIN
\* ticker_categories LEFT JOIN categories, one (ticker, name) per joined row
\* and name NULL where a join finds nothing; with an id, pd JOIN
\* ticker_categories WHERE tc.category_id = id.  DISTINCT makes it a set.
\* The nullable name column is None or <<name>>.
get_tickers_by_category(price, links, cats, category_id) ==
    LET pd == {r.ticker : r \in price}
        NamesOf(l) == {c.name : c \in {x \in cats : x.id = l.category_id}}
        Joined(t)  == {l \in links : l.ticker = t}
    IN  IF category_id = None
        THEN UNION {IF Joined(t) = {}
                    THEN {<<t, None>>}
                    ELSE UNION {IF NamesOf(l) = {}
                                THEN {<<t, None>>}
                                ELSE {<<t, <<n>>>> : n \in NamesOf(l)} : l \in Joined(t)} :
                    t \in pd}
        ELSE {<<t>> : t \in {u \in pd : \E l \in Joined(u) : l.category_id = category_id[1]}}

\* a call of get_tickers_by_category
call_get_tickers_by_category(category_id) ==
    /\ Idle
    /\ last' = Result("get_tickers_by_category", "list", "",
                      <<category_id,
                        get_tickers_by_category(price_daily, ticker_categories,
                                                categories, category_id)>>)
    /\ UNCHANGED <<store, foreign_keys, upserted, batch>>

\* the connection of a finished call: sqlite3.connect on entry, and conn.close()
\* reached or not on the way out
Exit(closed) ==
    /\ handles' = handles + 1 - (IF closed THEN 1 ELSE 0)
    /\ handles' <= MaxHandles

\* the interpreter finalises a connection that nothing refers to any more (the
\* exception that held its frame is gone), which closes it
Collect ==
    /\ handles > 0
    /\ handles' = handles - 1
    /\ UNCHANGED <<store, foreign_keys, last, upserted, ever, batch>>

----------------------------------------------------------------------------
(* The market-data provider (yfinance), from its interface *)

\* the frame that holds, for every k with f[k] # 0, the k-th day's row with
\* values f[k]; f[k] = NaNProfile stands for a row with a missing Volume
FrameOf(days, f) ==
    LET present == SelectSeq([k \in 1..Len(days) |-> k], LAMBDA k : f[k] # 0)
    IN  [n \in 1..Len(present) |->
            IF f[present[n]] = NaNProfile
            THEN RawRowNaN(days[present[n]])
            ELSE RawRow(days[present[n]], f[present[n]])]

RawFrames(days, profiles) ==
    {FrameOf(days, f) : f \in [1..Len(days) -> {0} \cup profiles]}

DateBefore(a, b) ==
    \/ a.y < b.y
    \/ a.y = b.y /\ a.m < b.m
    \/ a.y = b.y /\ a.m = b.m /\ a.d < b.d

ProviderError == [raised |-> TRUE, df |-> <<>>]

\* everything a call of history() can come to: an error, or a frame
Responses ==
    {ProviderError} \cup
    {[raised |-> FALSE, df |-> F] :
        F \in UNION {RawFrames(Days(t), ProviderProfiles \cup {NaNProfile}) : t \in Tickers}}

\* resp is a possible result of ticker_obj.history(period="max"): an error, or
\* any frame of the ticker's trading days
history_max(t, resp) ==
    \/ resp.raised
    \/ \A k \in 1..Len(resp.df) : \E n \in 1..NumDates : Days(t)[n] = resp.df[k].Date

\* resp is a possible result of ticker_obj.history(start=start): an error, or
\* any frame of the ticker's trading days from start on
history_start(t, start, resp) ==
    LET from == strptime(start)
    IN  /\ history_max(t, resp)
        /\ \A k \in 1..Len(resp.df) : ~DateBefore(resp.df[k].Date, from)

----------------------------------------------------------------------------
(* Sync engine (download_data.py) *)

HasNaN(df) == \E k \in 1..Len(df) : df[k].Volume = NaN

\* the places where insert_price(normalize(df)) can fail: executemany at one
\* of its rows, or commit; none when insert_price is not reached
InsertFaults(df) ==
    IF Len(df) = 0 \/ HasNaN(df) THEN {0} ELSE 0..(Len(df) + 1)

\* insert_ticker(ticker): every exception is caught and turned into False
insert_ticker(ticker, resp, fault) ==
    LET norm == normalize(resp.df, ticker)
        res  == insert_price(price_daily, norm.data, fault)
    IN  /\ Idle
        /\ history_max(ticker, resp)
        /\ fault \in InsertFaults(resp.df)
        /\ IF resp.raised
           THEN /\ UNCHANGED <<price_daily, upserted>>
                /\ last' = Result("insert_ticker", "False", "failed", <<>>)
           ELSE IF Len(resp.df) = 0
           THEN /\ UNCHANGED <<price_daily, upserted>>
                /\ last' = Result("insert_ticker", "False", "no_data", <<>>)
           ELSE IF norm.raised
           THEN /\ UNCHANGED <<price_daily, upserted>>
                /\ last' = Result("insert_ticker", "False", "failed", <<>>)
           ELSE /\ price_daily' = res.table
                /\ upserted' = IF res.raised THEN upserted ELSE Record(upserted, norm.data)
                /\ last' = IF res.raised
                           THEN Result("insert_ticker", "False", "failed", <<>>)
                           ELSE Result("insert_ticker", "True", "added", <<Len(resp.df)>>)
        /\ UNCHANGED <<categories, sqlite_sequence, ticker_categories,
                       foreign_keys, batch>>

\* update_all_ticker, up to the loop: tickers = db.get_all_tickers() is outside
\* the try, so an error there leaves the function
Begin(fault) ==
    /\ Idle
    /\ IF fault
       THEN /\ last' = Result("update_all_ticker", "raise", "", <<>>)
            /\ UNCHANGED batch
       ELSE /\ tickers' = get_all_tickers(price_daily)
            /\ pc' = IF Len(get_all_tickers(price_daily)) = 0 THEN "done" ELSE "loop"
            /\ i' = 0
            /\ success_count' = 0
            /\ fail_count' = 0
            /\ already_updated' = 0
            /\ start_date' = None
            /\ UNCHANGED last
    /\ UNCHANGED <<store, foreign_keys, upserted>>

\* a handler that names the provider's errors only
except_ProviderError(kind) == kind = "provider_error"

\* `except Exception as e` of the loop body: the kinds of error it catches
except_Exception(kind) == TRUE

\* what one pass of the loop body comes to
Outcome(last_date, wm_fault, resp, norm, res) ==
    IF wm_fault THEN "watermark_error"
    ELSE IF resp.raised THEN "provider_error"
    ELSE IF last_date # None /\ Len(resp.df) = 0 THEN "already"
    ELSE IF Len(resp.df) = 0 THEN "no_data"
    ELSE IF norm.raised THEN "normalize_error"
    ELSE IF res.raised THEN "storage_error"
    ELSE "success"

IsError(outcome) ==
    outcome \in {"watermark_error", "provider_error", "normalize_error", "storage_error"}

\* the tally without `already_updated += 1`
TallyNoAlready(outcome) ==
    [success_count   |-> IF outcome = "success" THEN 1 ELSE 0,
     already_updated |-> 0,
     fail_count      |-> IF outcome = "no_data" \/ IsError(outcome) THEN 1 ELSE 0]

\* the counter that a pass with this outcome increments
Tally(outcome) ==
    [success_count   |-> IF outcome = "success" THEN 1 ELSE 0,
     already_updated |-> IF outcome = "already" THEN 1 ELSE 0,
     fail_count      |-> IF outcome = "no_data" \/ IsError(outcome) THEN 1 ELSE 0]

\* one pass of `for i, ticker in enumerate(tickers, 1)`.  wm_fault: the read
\* of the watermark raises (the provider is then not called, resp is unused).
Iterate(wm_fault, resp, fault) ==
    LET ticker    == tickers[i + 1]
        last_date == get_last_price_date(price_daily, ticker)
        ranged    == ~wm_fault /\ last_date # None
        start     == IF ranged THEN NextStartDate(last_date) ELSE start_date
        norm      == normalize(resp.df, ticker)
        res       == insert_price(price_daily, norm.data, fault)
        outcome   == Outcome(last_date, wm_fault, resp, norm, res)
    IN  /\ pc = "loop"
        /\ wm_fault => resp = ProviderError
        /\ fault \in InsertFaults(resp.df)
        /\ IF ranged THEN history_start(ticker, start, resp) ELSE history_max(ticker, resp)
        /\ price_daily' = IF outcome \in {"storage_error", "success"}
                          THEN res.table ELSE price_daily
        /\ upserted' = IF outcome = "success" THEN Record(upserted, norm.data) ELSE upserted
        /\ IF IsError(outcome) /\ ~except_Exception(outcome)
           THEN \* the error leaves update_all_ticker
                /\ pc' = "idle"
                /\ tickers' = <<>>
                /\ i' = 0
                /\ success_count' = 0
                /\ fail_count' = 0
                /\ already_updated' = 0
                /\ start_date' = None
                /\ last' = Result("update_all_ticker", "raise", "", <<>>)
           ELSE /\ pc' = IF i + 1 = Len(tickers) THEN "done" ELSE "loop"
                /\ i' = i + 1
                /\ success_count' = success_count + Tally(outcome).success_count
                /\ already_updated' = already_updated + Tally(outcome).already_updated
                /\ fail_count' = fail_count + Tally(outcome).fail_count
                /\ start_date' = start
                /\ UNCHANGED <<tickers, last>>
        /\ UNCHANGED <<categories, sqlite_sequence, ticker_categories, foreign_keys>>

\* one pass of the loop body: the watermark read raises, or it returns and the
\* provider is asked
Pass ==
    \/ Iterate(TRUE, ProviderError, 0)
    \/ \E resp \in Responses : \E fault \in InsertFaults(resp.df) : Iterate(FALSE, resp, fault)

\* the statistics are printed and update_all_ticker returns None
Return ==
    /\ pc = "done"
    /\ pc' = "idle"
    /\ tickers' = <<>>
    /\ i' = 0
    /\ success_count' = 0
    /\ fail_count' = 0
    /\ already_updated' = 0
    /\ start_date' = None
    /\ last' = Result("update_all_ticker", "None", "", <<>>)
    /\ UNCHANGED <<store, foreign_keys, upserted>>

\* the frame reaches db.insert_price: the provider answered with rows and
\* their normalisation did not raise
Reached(resp) == ~resp.raised /\ Len(resp.df) > 0 /\ ~HasNaN(resp.df)

\* an insert_price that raised after its first INSERT has left its connection
\* open with the write transaction in it; until that connection is finalised
\* the first INSERT of any other connection waits for the lock and raises
\* "database is locked".  own: the place where this call fails by itself.
LockedFault(own) == IF handles > 0 THEN 1 ELSE own

\* the places where insert_price can fail by itself after its first INSERT
WriteFaults(df) == InsertFaults(df) \ {1}

\* insert_ticker with the connection of its insert_price
insert_ticker_connected(ticker, resp, own) ==
    LET fault == IF Reached(resp) THEN LockedFault(own) ELSE 0
    IN  /\ own \in WriteFaults(resp.df)
        /\ insert_ticker(ticker, resp, fault)
        /\ Exit(fault = 0)
        /\ ever' = ever

\* one pass of the loop of update_all_ticker with the connection of its
\* insert_price
Iterate_connected(resp, own) ==
    LET fault == IF Reached(resp) THEN LockedFault(own) ELSE 0
    IN  /\ own \in WriteFaults(resp.df)
        /\ Iterate(FALSE, resp, fault)
        /\ Exit(fault = 0)
        /\ ever' = ever

----------------------------------------------------------------------------
(* Specifications *)

\* after create_table(): three empty tables
Init ==
    /\ price_daily = {}
    /\ categories = {}
    /\ sqlite_sequence = 0
    /\ ticker_categories = {}
    /\ foreign_keys \in BOOLEAN
    /\ last = Result("", "", "", <<>>)
    /\ upserted = [t \in Tickers |-> {}]
    /\ ever = [t \in Tickers |-> {}]
    /\ handles = 0
    /\ pc = "idle"
    /\ tickers = <<>>
    /\ i = 0
    /\ success_count = 0
    /\ fail_count = 0
    /\ already_updated = 0
    /\ start_date = None

\* the same, on a build whose connections do not enforce foreign keys (SQLite's
\* default); the price table and the sync engine do not depend on the setting
InitDefault == Init /\ ~foreign_keys

\* the history `ever` is not kept, the connections are not counted
Untracked == ever' = ever /\ handles' = handles

\* the history `ever` is kept: the dates written by this step are added to it
Tracked == ever' = [t \in Tickers |-> ever[t] \cup upserted'[t]] /\ handles' = handles

DeleteFaults == {"none", "delete_price", "delete_links", "commit"}

\* the frames a client of insert_price passes: normalised rows of one ticker,
\* for the given days
CanonFrames(t, days) == {normalize(F, t).data : F \in RawFrames(days, Profiles)}

\* every day of the first ticker, and the first day of the others
ClientFrames ==
    CanonFrames(TickerUniverse[1], Days(TickerUniverse[1])) \cup
    UNION {CanonFrames(t, SubSeq(Days(t), 1, 1)) : t \in Tickers}

\* one stored day of a ticker
SeedFrame(t) == normalize(<<RawRow(Days(t)[1], 1)>>, t).data

\* the store under its category and deletion operations
Next ==
    \/ \E t \in Tickers : \E fault \in 0..(Len(SeedFrame(t)) + 1) :
          upsertPrices(SeedFrame(t), fault)
    \/ \E t \in Tickers, fault \in DeleteFaults : delete_ticker(t, fault)
    \/ \E name \in CategoryNames, fault \in BOOLEAN : add_category(name, fault)
    \/ \E id \in CategoryIds, fault \in BOOLEAN : delete_category(id, fault)
    \/ \E t \in Tickers, id \in CategoryIds, fault \in BOOLEAN :
          assign_ticker_to_category(t, id, fault)
    \/ \E t \in Tickers, id \in CategoryIds, fault \in BOOLEAN :
          remove_ticker_from_category(t, id, fault)

Spec == Init /\ [][Next /\ Untracked]_vars

\* the price table under insert_price and delete_ticker
NextUpsert ==
    \/ \E data \in ClientFrames : \E fault \in 0..(Len(data) + 1) :
          upsertPrices(data, fault)
    \/ \E t \in Tickers, fault \in DeleteFaults : delete_ticker(t, fault)

UpsertSpec == InitDefault /\ [][NextUpsert /\ Untracked]_vars

\* the sync engine against the provider
NextSync ==
    \/ \E t \in Tickers, resp \in Responses : \E fault \in InsertFaults(resp.df) :
          insert_ticker(t, resp, fault)
    \/ \E t \in Tickers, fault \in DeleteFaults : delete_ticker(t, fault)
    \/ \E fault \in BOOLEAN : Begin(fault)
    \/ Pass
    \/ Return

SyncSpec == InitDefault /\ [][NextSync /\ Untracked]_vars

\* update_all_ticker runs on: each pass of its loop, and its return, happen
Fairness ==
    /\ WF_vars(Pass /\ Untracked)
    /\ WF_vars(Return /\ Untracked)

FairSyncSpec == InitDefault /\ [][NextSync /\ Untracked]_vars /\ Fairness

\* the sync engine and delete_ticker on a store that does not fail, with the
\* history of all rows ever upserted
NextHistory ==
    \/ \E t \in Tickers, resp \in Responses : insert_ticker(t, resp, 0)
    \/ \E t \in Tickers : delete_ticker(t, "none")
    \/ Begin(FALSE)
    \/ \E resp \in Responses : Iterate(FALSE, resp, 0)
    \/ Return

HistorySyncSpec == InitDefault /\ [][NextHistory /\ Tracked]_vars

\* the store's operations with their connections: insert_price and the two
\* queries close theirs on the way that returns only, the others in a `finally`
NextHandle ==
    \/ \E t \in Tickers : \E fault \in 0..(Len(SeedFrame(t)) + 1) :
          upsertPrices(SeedFrame(t), fault) /\ Exit(fault = 0) /\ ever' = ever
    \/ \E fault \in BOOLEAN :
          call_get_all_tickers(fault) /\ Exit(~fault) /\ ever' = ever
    \/ \E t \in Tickers, fault \in BOOLEAN :
          call_get_last_price_date(t, fault) /\ Exit(~fault) /\ ever' = ever
    \/ \E t \in Tickers, fault \in BOOLEAN :
          select_price(t, fault) /\ Exit(TRUE) /\ ever' = ever
    \/ \E t \in Tickers, fault \in DeleteFaults :
          delete_ticker(t, fault) /\ Exit(TRUE) /\ ever' = ever
    \/ Collect

HandleSpec == InitDefault /\ [][NextHandle]_vars

\* the sync engine with the connections of insert_price; only a pass of the
\* batch fails by itself
NextConnectedSync ==
    \/ \E t \in Tickers, resp \in Responses : insert_ticker_connected(t, resp, 0)
    \/ Begin(FALSE) /\ Untracked
    \/ \E resp \in Responses : \E own \in WriteFaults(resp.df) :
          Iterate_connected(resp, own)
    \/ Return /\ Untracked
    \/ Collect

ConnectedSyncSpec == InitDefault /\ [][NextConnectedSync]_vars

\* the category that the first ticker is put in
FirstCategory == CHOOSE name \in CategoryNames : TRUE

\* the sync engine on a store that holds a category and a link
NextClassifiedSync ==
    \/ add_category(FirstCategory, FALSE)
    \/ assign_ticker_to_category(TickerUniverse[1], 1, FALSE)
    \/ \E t \in Tickers, resp \in Responses : \E fault \in InsertFaults(resp.df) :
          insert_ticker(t, resp, fault)
    \/ Begin(FALSE)
    \/ Pass
    \/ Return

ClassifiedSyncSpec == InitDefault /\ [][NextClassifiedSync /\ Untracked]_vars

\* the price table and its statistics, on a store that does not fail
NextStatistics ==
    \/ \E data \in ClientFrames : upsertPrices(data, 0)
    \/ \E t \in Tickers : delete_ticker(t, "none")
    \/ \E t \in Tickers : call_get_ticker_statistics(t)

StatisticsSpec == InitDefault /\ [][NextStatistics /\ Untracked]_vars

\* the arguments of get_tickers_by_category
CategoryArgs == {None} \cup {<<id>> : id \in CategoryIds}

\* the tickers and their categories, on a store that does not fail
NextCategoryQuery ==
    \/ \E t \in Tickers : upsertPrices(SeedFrame(t), 0)
    \/ \E t \in Tickers : delete_ticker(t, "none")
    \/ \E name \in CategoryNames : add_category(name, FALSE)
    \/ \E id \in CategoryIds : delete_category(id, FALSE)
    \/ \E t \in Tickers, id \in CategoryIds : assign_ticker_to_category(t, id, FALSE)
    \/ \E t \in Tickers, id \in CategoryIds : remove_ticker_from_category(t, id, FALSE)
    \/ \E arg \in CategoryArgs : call_get_tickers_by_category(arg)

CategoryQuerySpec == Init /\ [][NextCategoryQuery /\ Untracked]_vars

----------------------------------------------------------------------------
(* Claims *)

RowsOf(table, t) == {s \in table : s.ticker = t}

\* C1: an upsert of rows whose (ticker, date) keys are stored leaves, for each
\* key of the batch, exactly one row, and that row is the batch's row (all
\* seven value columns overwritten); the number of rows of a ticker grows by
\* the number of keys that were new, so not at all when every key was stored;
\* upserting the same batch again changes nothing.
C1_IdempotentUpsert ==
    [][(last'.op = "insert_price" /\ last'.ret = "None") =>
       \A data \in ClientFrames :
          (upserted' = Record(upserted, data) /\ upsertPrices(data, 0)) =>
             /\ \A k \in 1..Len(data) :
                   {s \in price_daily' : Key(s) = Key(data[k])} = {data[k]}
             /\ \A u \in Tickers :
                   Cardinality(RowsOf(price_daily', u)) =
                      Cardinality(RowsOf(price_daily, u)) +
                      Cardinality({k \in 1..Len(data) :
                                      /\ data[k].ticker = u
                                      /\ ~(\E s \in price_daily : Key(s) = Key(data[k]))})
             /\ insert_price(price_daily', data, 0).table = price_daily'
      ]_vars

\* an upsert has replaced a stored row by different values, next to a stored
\* row of the same ticker that it left alone
C1_Witness ==
    /\ last.op = "insert_price"
    /\ last.ret = "None"
    /\ last.rows[1] >= 1
    /\ \E t \in Tickers : Cardinality(RowsOf(price_daily, t)) = NumDates

LinksOf(table, t) == {l \in table : l.ticker = t}

\* C2: after delete_category(id) of a stored category no link with
\* category_id = id remains, and the price rows are what they were.
C2_CategoryCascade ==
    [][(last'.op = "delete_category") =>
       \A id \in CategoryIds :
          (delete_category(id, FALSE) /\ (\E c \in categories : c.id = id)) =>
             /\ \A l \in ticker_categories' : l.category_id # id
             /\ price_daily' = price_daily
      ]_vars

\* C3: every link references a category that is stored.
C3_LinksReferenceCategories ==
    \A l \in ticker_categories : \E c \in categories : c.id = l.category_id

\* C8: delete_ticker(t) that commits leaves no price row and no link of t; the
\* two removals are published together or not at all; the rows and links of
\* every other ticker, and the categories, are unchanged.
C8_DeleteTicker ==
    [][(last'.op = "delete_ticker") =>
       \A t \in Tickers : \A f \in DeleteFaults :
          delete_ticker(t, f) =>
             /\ (f = "none") =>
                   RowsOf(price_daily', t) = {} /\ LinksOf(ticker_categories', t) = {}
             /\ \/ RowsOf(price_daily', t) = {} /\ LinksOf(ticker_categories', t) = {}
                \/ price_daily' = price_daily /\ ticker_categories' = ticker_categories
             /\ \A u \in Tickers \ {t} :
                   /\ RowsOf(price_daily', u) = RowsOf(price_daily, u)
                   /\ LinksOf(ticker_categories', u) = LinksOf(ticker_categories, u)
             /\ categories' = categories
      ]_vars

\* a ticker with a price row and a link has been deleted while another ticker
\* has a price row and a link
C8_Witness ==
    /\ last.op = "delete_ticker"
    /\ last.out = "deleted"
    /\ last.rows[1] >= 1
    /\ last.rows[2] >= 1
    /\ \E u \in Tickers : RowsOf(price_daily, u) # {} /\ LinksOf(ticker_categories, u) # {}
    /\ categories # {}

\* C9: a delete_ticker that committed and removed links of a ticker without
\* price rows reports a successful deletion to its caller (stated for links
\* made under foreign-key enforcement, so that they are links to categories).
C9_DeleteReportsRemoval ==
    (/\ foreign_keys
     /\ last.op = "delete_ticker"
     /\ last.out = "deleted"
     /\ last.rows[1] = 0
     /\ last.rows[2] > 0) => last.ret = "True"

Counters == <<success_count, already_updated, fail_count>>

\* C4: every pass of the batch loop increments exactly one of the three
\* counters by one, and when the batch ends they sum to the number of tickers
\* listed at its start.
C4_BatchAccounting ==
    /\ [](pc = "done" => success_count + already_updated + fail_count = Len(tickers))
    /\ [][(pc = "loop") =>
            \/ Counters' = <<success_count + 1, already_updated, fail_count>>
            \/ Counters' = <<success_count, already_updated + 1, fail_count>>
            \/ Counters' = <<success_count, already_updated, fail_count + 1>>
         ]_vars

\* a batch over two tickers has ended with two different counters incremented
C4_Witness ==
    /\ pc = "done"
    /\ Len(tickers) = 2
    /\ already_updated = 1
    /\ fail_count = 1

\* the inputs of a pass that make it fail: the watermark read raises, the
\* provider raises, a Volume is missing, or insert_price raises
Fails(wm_fault, resp, fault) == wm_fault \/ resp.raised \/ HasNaN(resp.df) \/ fault # 0

\* C5: a pass of the batch loop that fails, for whatever reason, adds one to
\* fail_count and to nothing else, and the loop goes on to the next ticker or
\* to its end: the error does not leave update_all_ticker.  Every ticker of the
\* list has been processed when the batch ends, and a batch in its loop ends.
C5_PartialFailureTolerance ==
    /\ [][(pc = "loop") =>
            \A wm_fault \in BOOLEAN, resp \in Responses :
               \A fault \in InsertFaults(resp.df) :
                  (Fails(wm_fault, resp, fault) /\ Iterate(wm_fault, resp, fault)) =>
                     /\ Counters' = <<success_count, already_updated, fail_count + 1>>
                     /\ i' = i + 1
                     /\ tickers' = tickers
                     /\ pc' = IF i + 1 = Len(tickers) THEN "done" ELSE "loop"
                     /\ last' = last
         ]_vars
    /\ [](pc = "done" => i = Len(tickers))
    /\ (pc = "loop") ~> (pc = "done")

\* a batch over two tickers has ended; the first ticker failed (it gained no
\* row) and the second one, processed after it, succeeded
C5_Witness ==
    /\ pc = "done"
    /\ tickers = TickerUniverse
    /\ fail_count = 1
    /\ success_count = 1
    /\ Cardinality(RowsOf(price_daily, tickers[1])) = 1
    /\ Cardinality(RowsOf(price_daily, tickers[2])) = 2

MonthLength(year, month) ==
    IF month = 2
    THEN (IF year % 400 = 0 \/ (year % 4 = 0 /\ year % 100 # 0) THEN 29 ELSE 28)
    ELSE IF month \in {4, 6, 9, 11} THEN 30 ELSE 31

NextCalendarDay(dt) ==
    IF dt.d < MonthLength(dt.y, dt.m) THEN [dt EXCEPT !.d = dt.d + 1]
    ELSE IF dt.m < 12 THEN [y |-> dt.y, m |-> dt.m + 1, d |-> 1]
    ELSE [y |-> dt.y + 1, m |-> 1, d |-> 1]

\* the latest of a set of dates
LatestDay(S) == CHOOSE x \in S : \A z \in S : ~DateBefore(x, z)

\* C6: a pass for a ticker whose latest stored day is d asks the provider for
\* the rows from the calendar day after d; when the provider answers with no
\* row, the pass counts the ticker as already current, not as succeeded or
\* failed, and leaves the stored rows as they are.
C6_IncrementalFetch ==
    [][(pc = "loop") =>
         \A resp \in Responses : \A fault \in InsertFaults(resp.df) :
            Iterate(FALSE, resp, fault) =>
               LET stored == {strptime(r.date) : r \in RowsOf(price_daily, tickers[i + 1])}
               IN  (stored # {}) =>
                     /\ start_date' = strftime(NextCalendarDay(LatestDay(stored)))
                     /\ (~resp.raised /\ Len(resp.df) = 0) =>
                           /\ Counters' = <<success_count, already_updated + 1, fail_count>>
                           /\ price_daily' = price_daily
      ]_vars

\* a pass has asked for the rows from 2024-01-01 on, the day after the
\* watermark 2023-12-31, and counted the ticker as already current
C6_Witness ==
    /\ pc \in {"loop", "done"}
    /\ i = 1
    /\ start_date = <<50, 48, 50, 52, 45, 48, 49, 45, 48, 49>>
    /\ already_updated = 1

\* C7: in every state the latest stored date of a ticker is the latest of the
\* dates of the rows upserted for it since its rows were last deleted (of all
\* rows ever upserted, when they never were), and no step other than a
\* delete_ticker decreases it.
C7_WatermarkMonotone ==
    /\ [](\A t \in Tickers :
            /\ (upserted[t] # {}) =>
                  get_last_price_date(price_daily, t) =
                     strftime(LatestDay({strptime(x) : x \in upserted[t]}))
            /\ (upserted[t] = ever[t] /\ ever[t] # {}) =>
                  get_last_price_date(price_daily, t) =
                     strftime(LatestDay({strptime(x) : x \in ever[t]})))
    /\ [][(last'.op # "delete_ticker" /\ price_daily' # price_daily) =>
            \A t \in Tickers :
               (get_last_price_date(price_daily, t) # None) =>
                  /\ get_last_price_date(price_daily', t) # None
                  /\ ~DateBefore(strptime(get_last_price_date(price_daily', t)),
                                 strptime(get_last_price_date(price_daily, t)))
         ]_vars

\* insert_ticker has succeeded; a ticker whose rows were deleted has rows
\* again, fewer than were ever upserted for it, and another one has rows for
\* all its days
C7_Witness ==
    /\ last.op = "insert_ticker"
    /\ last.ret = "True"
    /\ \E t \in Tickers :
          /\ upserted[t] # {}
          /\ upserted[t] # ever[t]
          /\ \E u \in Tickers : u # t /\ Cardinality(upserted[u]) = NumDates

\* C7 as stated: after a successful sync of a ticker, by insert_ticker or by a
\* pass of the batch, its latest stored date is the latest of the dates of all
\* rows ever upserted for it.
C7_EverUpserted ==
    [][\A t \in Tickers :
          (\/ /\ last'.op = "insert_ticker"
              /\ last'.ret = "True"
              /\ \E resp \in Responses : insert_ticker(t, resp, 0)
           \/ /\ pc = "loop"
              /\ success_count' = success_count + 1
              /\ t = tickers[i + 1]) =>
             get_last_price_date(price_daily', t) =
                strftime(LatestDay({strptime(x) : x \in ever'[t]}))
      ]_vars

\* C10: insert_ticker returns False when the provider has no row for the
\* ticker; whenever it returns False the four tables are what they were;
\* whenever it returns True every normalised row of the fetched frame is stored.
C10_AddTicker ==
    [][(last'.op = "insert_ticker") =>
         \A t \in Tickers, resp \in Responses : \A fault \in InsertFaults(resp.df) :
            insert_ticker(t, resp, fault) =>
               /\ (~resp.raised /\ Len(resp.df) = 0) => last'.ret = "False"
               /\ (last'.ret = "False") => store' = store
               /\ (last'.ret = "True") =>
                     \A k \in 1..Len(resp.df) : CanonRow(resp.df[k], t) \in price_daily'
      ]_vars

\* insert_ticker has returned False for a ticker without data while rows of
\* an earlier call are stored
C10_Witness ==
    /\ last.op = "insert_ticker"
    /\ last.ret = "False"
    /\ last.out = "no_data"
    /\ price_daily # {}

\* C11: a call of insert_price that raises, at any row of its batch or at
\* commit, leaves the four tables as they were, the rows before the failing
\* one included; a call that returns has stored every row of its batch.
C11_AtomicUpsert ==
    [][(last'.op = "insert_price") =>
         \A data \in ClientFrames : \A fault \in 0..(Len(data) + 1) :
            upsertPrices(data, fault) =>
               /\ (fault # 0) => (last'.ret = "raise" /\ store' = store)
               /\ (fault = 0) =>
                     /\ last'.ret = "None"
                     /\ \A k \in 1..Len(data) : data[k] \in price_daily'
      ]_vars

\* a call of insert_price has raised on a store where the first ticker has
\* one of its days only, so that a batch of all its days would have shown
C11_Witness ==
    /\ last.op = "insert_price"
    /\ last.ret = "raise"
    /\ Cardinality(RowsOf(price_daily, TickerUniverse[1])) = 1

\* C12: add_category with a name that is stored returns False, raises nothing
\* and leaves the categories (their number, ids and names) and the id counter
\* as they were; in every state no two categories have the same name, nor the
\* same id.
C12_DuplicateSafeCategory ==
    /\ [](\A c \in categories, d \in categories :
            (c.name = d.name \/ c.id = d.id) => c = d)
    /\ [][(last'.op = "add_category") =>
            \A name \in CategoryNames :
               (add_category(name, FALSE) /\ (\E c \in categories : c.name = name)) =>
                  /\ last'.ret = "False"
                  /\ categories' = categories
                  /\ sqlite_sequence' = sqlite_sequence
         ]_vars

\* add_category has returned False for a stored name, next to another category
C12_Witness ==
    /\ last.op = "add_category"
    /\ last.ret = "False"
    /\ Cardinality(categories) = 2

\* C13: assign_ticker_to_category on a (ticker, category_id) pair that is
\* linked returns True and leaves the links as they were; in every state the
\* table holds at most one row for a pair.
C13_IdempotentAssignment ==
    /\ [](\A l \in ticker_categories :
            /\ l.copies = 1
            /\ Linked(ticker_categories, l.ticker, l.category_id) = {l})
    /\ [][(last'.op = "assign_ticker_to_category") =>
            \A t \in Tickers, id \in CategoryIds :
               (/\ assign_ticker_to_category(t, id, FALSE)
                /\ Linked(ticker_categories, t, id) # {}) =>
                  /\ last'.ret = "True"
                  /\ ticker_categories' = ticker_categories
         ]_vars

\* a linked pair has been assigned again, next to a link of the other ticker
C13_Witness ==
    /\ last.op = "assign_ticker_to_category"
    /\ last.ret = "True"
    /\ last.out = "ignored"
    /\ \A t \in Tickers : LinksOf(ticker_categories, t) # {}

\* C14: between the operations of the store no connection is open: every
\* operation has closed the one it opened, whichever way it left.
C14_HandlesReleased == handles = 0

\* the rows of a provider frame that have a Volume
Complete(df) == SelectSeq(df, LAMBDA row : row.Volume # NaN)

\* a frame that holds a row without Volume among rows that have one
Mixed(resp) == ~resp.raised /\ HasNaN(resp.df) /\ Len(Complete(resp.df)) > 0

\* C15: when the provider's frame holds a row without Volume among complete
\* rows, the normalisation drops that row and the others are upserted:
\* insert_ticker returns True, a pass of the batch counts the ticker as
\* succeeded and not as failed, and the store is what the upsert of the
\* complete rows makes it.
C15_MissingFieldRowsDropped ==
    [][/\ (last'.op = "insert_ticker") =>
            \A t \in Tickers, resp \in Responses :
               (Mixed(resp) /\ insert_ticker(t, resp, 0)) =>
                  /\ last'.ret = "True"
                  /\ price_daily' =
                        insert_price(price_daily, normalize(Complete(resp.df), t).data, 0).table
       /\ (pc = "loop") =>
            \A resp \in Responses :
               (Mixed(resp) /\ Iterate(FALSE, resp, 0)) =>
                  /\ success_count' = success_count + 1
                  /\ fail_count' = fail_count
                  /\ price_daily' =
                        insert_price(price_daily,
                                     normalize(Complete(resp.df), tickers[i + 1]).data, 0).table
      ]_vars

\* C16: get_ticker_statistics returns None for a ticker that has no stored
\* row, and for a ticker that has rows a dict whose total_days is their
\* number, at least 1.
C16_StatisticsAbsent ==
    [][(last'.op = "get_ticker_statistics") =>
         \A t \in Tickers :
            call_get_ticker_statistics(t) =>
               IF RowsOf(price_daily, t) = {}
               THEN last'.ret = "None"
               ELSE /\ last'.ret = "dict"
                    /\ last'.rows[1].total_days = Cardinality(RowsOf(price_daily, t))
                    /\ last'.rows[1].total_days >= 1
      ]_vars

\* every ticker the store knows: one with a price row, or with a link
KnownTickers == {r.ticker : r \in price_daily} \cup {l.ticker : l \in ticker_categories}

\* the names of the categories that a ticker is linked to
CategoryNamesOf(t) ==
    {c.name : c \in {x \in categories :
                        \E l \in ticker_categories : l.ticker = t /\ l.category_id = x.id}}

\* C17: in a state where every link is to a stored category,
\* get_tickers_by_category(None) returns every known ticker with the name of
\* each of its categories, and with None exactly when it has no link; with an
\* id it returns exactly the tickers linked to that category.
C17_TickersOf ==
    (/\ last.op = "get_tickers_by_category"
     /\ C3_LinksReferenceCategories) =>
       IF last.rows[1] = None
       THEN last.rows[2] =
               UNION {IF LinksOf(ticker_categories, t) = {}
                      THEN {<<t, None>>}
                      ELSE {<<t, <<n>>>> : n \in CategoryNamesOf(t)} : t \in KnownTickers}
       ELSE last.rows[2] =
               {<<l.ticker>> : l \in {x \in ticker_categories : x.category_id = last.rows[1][1]}}

\* C18: a pass of the batch loop that fails leaves every stored row as it was,
\* and a pass whose own fetch, normalisation and insert_price do not fail
\* stores its frame and counts as a success whatever failed in the passes
\* before it; no pass changes the rows of a ticker other than its own.
C18_FailureIsolation ==
    [][(pc = "loop") =>
         /\ (fail_count' = fail_count + 1) => price_daily' = price_daily
         /\ \A B \in Tickers \ {tickers[i + 1]} :
               RowsOf(price_daily', B) = RowsOf(price_daily, B)
         /\ \A resp \in Responses :
               (Reached(resp) /\ Iterate_connected(resp, 0)) =>
                  /\ success_count' = success_count + 1
                  /\ price_daily' =
                        insert_price(price_daily,
                                     normalize(resp.df, tickers[i + 1]).data, 0).table
      ]_vars

\* C19: the batch lists exactly the tickers that have a stored price row, each
\* once; the ticker of every pass still has a row, hence a watermark, when the
\* pass reads it, so a pass asks the provider for the range from the day after
\* the watermark and never comes to "no data available"; a ticker without
\* price rows is not in the list.
C19_WatermarkPresent ==
    /\ [](pc \in {"loop", "done"} =>
            /\ \A k \in 1..Len(tickers) : RowsOf(price_daily, tickers[k]) # {}
            /\ \A k, m \in 1..Len(tickers) : tickers[k] = tickers[m] => k = m)
    /\ [](pc = "loop" => get_last_price_date(price_daily, tickers[i + 1]) # None)
    /\ [][(pc = "idle" /\ pc' # "idle") =>
            {tickers'[k] : k \in 1..Len(tickers')} = {r.ticker : r \in price_daily}]_vars
    /\ [][(pc = "loop") =>
            \A resp \in Responses : \A fault \in InsertFaults(resp.df) :
               Iterate(FALSE, resp, fault) =>
                  LET ticker    == tickers[i + 1]
                      last_date == get_last_price_date(price_daily, ticker)
                      norm      == normalize(resp.df, ticker)
                  IN  /\ history_start(ticker, NextStartDate(last_date), resp)
                      /\ start_date' = NextStartDate(last_date)
                      /\ Outcome(last_date, FALSE, resp, norm,
                                 insert_price(price_daily, norm.data, fault)) # "no_data"
         ]_vars

\* a batch has ended that listed one ticker and stored a new day for it, while
\* the other ticker has no price row
C19_Witness ==
    /\ pc = "done"
    /\ Len(tickers) = 1
    /\ success_count = 1
    /\ \E t \in Tickers : RowsOf(price_daily, t) = {}

\* the (ticker, date) keys of a price table
KeysOf(table) == {Key(r) : r \in table}

\* a step of insert_ticker or of update_all_ticker
SyncStep == pc # "idle" \/ pc' # "idle" \/ last'.op \in {"insert_ticker", "update_all_ticker"}

\* C20: a step of insert_ticker or of the batch removes no (ticker, date) key
\* from price_daily, so no ticker's row count decreases; it writes rows of the
\* ticker it processes only; and it leaves categories and ticker_categories
\* as they were.
C20_SyncOnlyAdds ==
    [][SyncStep =>
         /\ KeysOf(price_daily) \subseteq KeysOf(price_daily')
         /\ \A t \in Tickers :
               Cardinality(RowsOf(price_daily, t)) <= Cardinality(RowsOf(price_daily', t))
         /\ categories' = categories
         /\ sqlite_sequence' = sqlite_sequence
         /\ ticker_categories' = ticker_categories
         /\ (pc = "loop") =>
               \A t \in Tickers \ {tickers[i + 1]} :
                  RowsOf(price_daily', t) = RowsOf(price_daily, t)
         /\ (last'.op = "insert_ticker" /\ price_daily' # price_daily) =>
               \A t \in Tickers, resp \in Responses :
                  \A fault \in InsertFaults(resp.df) :
                     insert_ticker(t, resp, fault) =>
                        \A u \in Tickers \ {t} :
                           RowsOf(price_daily', u) = RowsOf(price_daily, u)
      ]_vars

\* a pass of the batch has overwritten nothing and added a day to a ticker
\* that is linked to a stored category
C20_Witness ==
    /\ pc = "done"
    /\ success_count = 1
    /\ categories # {}
    /\ \E t \in Tickers :
          /\ Cardinality(RowsOf(price_daily, t)) = 2
          /\ LinksOf(ticker_categories, t) # {}

====
